---- MODULE Spec2Model ----
(***************************************************************************)
(* A model of the airbnb_postgres_to_s3 pipeline:                          *)
(*   - PostgresToS3Operator.execute   (plugins/custom_operator)            *)
(*   - load_csv_to_postgres, download_csv, preprocess_csv and the task     *)
(*     chain of the DAG                (dags/airbnb_postgres_to_s3.py)     *)
(* Four specifications share the module: SpecExport and SpecCsv (the       *)
(* export operator), SpecLoad (the bulk loader, two runs that may overlap) *)
(* and SpecDag (one pipeline run of the five chained tasks).               *)
(***************************************************************************)
EXTENDS Naturals, Sequences, FiniteSets, TLC

VARIABLES
    \* ---- export operator (PostgresToS3Operator.execute) ----
    data,         \* what self.query returns when executed: [headers, rows]
    s3obj,        \* the object at s3://s3_bucket/s3_key (NoObject or characters)
    epc,          \* position inside execute
    conn,         \* the connection of this invocation: "none" | "open" | "closed"
    cursor,       \* its cursor: "none" | "open" | "closed"
    result,       \* the result set the cursor holds after cursor.execute
    rows,         \* local `rows`
    headers,      \* local `headers`
    data_buffer,  \* local `data_buffer` (its getvalue())
    writes,       \* number of load_string calls that wrote, this invocation
    execs,        \* number of cursor.execute calls, this invocation
    failedAt,     \* the call whose exception left execute ("" if none)
    objAtStart,   \* s3obj when this invocation started
    lastGood,     \* result set of the most recent invocation that returned normally
    \* ---- bulk loader (load_csv_to_postgres) ----
    today,        \* CURRENT_DATE of the database server
    listings,     \* committed rows of table listings, as batches [file, load_date, run]
    lpc,          \* per loader: position inside load_csv_to_postgres
    lrun,         \* per loader: identifier of its current run
    purgeDate,    \* per loader: CURRENT_DATE of the transaction of the DELETE
    copyDate,     \* per loader: CURRENT_DATE of the transaction of the COPYs
    pendDel,      \* per loader: batches deleted by the uncommitted DELETE
    pendIns,      \* per loader: batches inserted by the uncommitted COPYs
    nextFile,     \* per loader: index in listing_dates of the next file to copy
    runs,         \* number of load runs started so far
    overlapped,   \* per loader: another run was active during its current run
    everOverlap,  \* TRUE once two load runs have been active at the same time
    lastRun,      \* record of the load run that finished last
    prevRun,      \* record of the load run that finished before lastRun
    \* ---- DAG run ----
    ts,           \* per task: "none" | "running" | "success" | "failed" | "upstream_failed"
    started,      \* the tasks in the order they started
    rawFile,      \* per snapshot: /tmp/airbnbdata/listing-{date}.csv exists
    procFile,     \* per snapshot: /tmp/airbnbdata/listing-{date}-processed.csv exists
    loopIdx,      \* index in listing_dates of the running for-loop
    skipped,      \* snapshots whose download was logged as failed in this run
    attempted,    \* snapshots download_csv requested in this run
    failCause     \* why the failed task of this run failed ("" if none)

exportVars == <<data, s3obj, epc, conn, cursor, result, rows, headers,
                data_buffer, writes, execs, failedAt, objAtStart, lastGood>>
loadVars   == <<today, listings, lpc, lrun, purgeDate, copyDate, pendDel,
                pendIns, nextFile, runs, overlapped, everOverlap, lastRun,
                prevRun>>
dagVars    == <<ts, started, rawFile, procFile, loopIdx, skipped, attempted,
                failCause>>
vars       == <<exportVars, loadVars, dagVars>>

(***************************************************************************)
(* Bounds of the model                                                     *)
(***************************************************************************)
MaxRows  == 2   \* rows of a query result
NumFiles == 2   \* entries of listing_dates that are modelled
MaxDay   == 1   \* calendar days after day 0 the clock may reach
MaxRuns  == 3   \* load runs started in one behaviour

\* Markers, each of the shape of the values it stands among
NoVal    == <<"NoVal">>     \* an unset local (rows, headers)
NoObject == <<"NoObject">>  \* no object at the key
NULL     == <<"NULL">>      \* a SQL NULL, fetched as Python None
NoResult == [headers |-> <<>>, rows |-> <<>>]  \* no result set
NoDate   == MaxDay + 1      \* no transaction has started
NoRun    == [run |-> 0, ok |-> FALSE, failedAt |-> "", purgeDate |-> NoDate,
             copyDate |-> NoDate, copied |-> 0, overlapped |-> FALSE,
             count |-> 0]   \* no load run has ended

(***************************************************************************)
(* csv.writer(data_buffer, quoting=csv.QUOTE_MINIMAL, lineterminator="\n") *)
(* Text is a sequence of one-character strings.                            *)
(***************************************************************************)
DELIMITER      == ","
QUOTECHAR      == "\""
LINETERMINATOR == "\n"

\* str(value) as the writer applies it; None is written as the empty string
FieldText(v) == IF v = NULL THEN <<>> ELSE v

NeedsQuoteNoLF(f) == \E i \in 1..Len(f) : f[i] \in {DELIMITER, QUOTECHAR}
\* QUOTE_MINIMAL: a field is quoted iff it holds the delimiter, the quote
\* character or a character of the line terminator
NeedsQuote(f) == \E i \in 1..Len(f) : f[i] \in {DELIMITER, QUOTECHAR, LINETERMINATOR}

RECURSIVE DoubleQuotes(_)
\* doublequote=True: every quote character inside a field is written twice
DoubleQuotes(f) ==
    IF f = <<>> THEN <<>>
    ELSE (IF Head(f) = QUOTECHAR THEN <<QUOTECHAR, QUOTECHAR>> ELSE <<Head(f)>>)
         \o DoubleQuotes(Tail(f))

WriteField(v) ==
    LET f == FieldText(v)
    IN  IF NeedsQuote(f) THEN <<QUOTECHAR>> \o DoubleQuotes(f) \o <<QUOTECHAR>>
        ELSE f

RECURSIVE JoinFields(_)
JoinFields(fs) ==
    IF fs = <<>> THEN <<>>
    ELSE IF Len(fs) = 1 THEN WriteField(fs[1])
    ELSE WriteField(fs[1]) \o <<DELIMITER>> \o JoinFields(Tail(fs))

\* csv_writer.writerow: a record of one empty field is written as "" so that
\* it is not an empty line
WriteRow(fs) ==
    LET line == JoinFields(fs)
    IN  (IF Len(fs) > 0 /\ line = <<>> THEN <<QUOTECHAR, QUOTECHAR>> ELSE line)
        \o <<LINETERMINATOR>>

RECURSIVE WriteRows(_)
\* csv_writer.writerows
WriteRows(rs) ==
    IF rs = <<>> THEN <<>> ELSE WriteRow(Head(rs)) \o WriteRows(Tail(rs))

\* lines 55-56 and data_buffer.getvalue()
CsvText(hs, rs) == WriteRow(hs) \o WriteRows(rs)

(***************************************************************************)
(* S3Hook.load_string(string_data, bucket_name, key, replace=True)         *)
(***************************************************************************)
S3PutNoTruncate(old, new) ==
    IF old = NoObject \/ Len(old) <= Len(new) THEN new
    ELSE new \o SubSeq(old, Len(new) + 1, Len(old))
\* the whole object is replaced
S3Put(old, new) == new

(***************************************************************************)
(* Query results                                                           *)
(***************************************************************************)
\* the first columns of SELECT * FROM listings (create_table: id, name)
ColNames == << <<"i", "d">>, <<"n", "a", "m", "e">> >>

FieldVals == {NULL, <<>>, <<"a">>, <<DELIMITER>>, <<QUOTECHAR>>,
              <<LINETERMINATOR>>}
SmallVals == {<<"a">>, <<"a", DELIMITER>>}

ResultSets(V) ==
    UNION { [headers : {SubSeq(ColNames, 1, c)},
             rows    : UNION {[1..n -> [1..c -> V]] : n \in 0..MaxRows}]
            : c \in 1..Len(ColNames) }

\* an object left at the key by something else, longer than any export here
OldObject == <<"o", "l", "d", ",", "o", "b", "j", "e", "c", "t", "\n",
               "o", "l", "d", ",", "o", "b", "j", "e", "c", "t", "\n",
               "o", "l", "d", ",", "o", "b", "j", "e", "c", "t", "\n",
               "o", "l", "d", ",", "o", "b", "j", "e", "c", "t", "\n">>

(***************************************************************************)
(* PostgresToS3Operator.execute                                            *)
(***************************************************************************)
ExportInit(V) ==
    /\ data \in ResultSets(V)
    /\ s3obj \in {NoObject, OldObject}
    /\ epc = "idle"
    /\ conn = "none"
    /\ cursor = "none"
    /\ result = NoResult
    /\ rows = NoVal
    /\ headers = NoVal
    /\ data_buffer = <<>>
    /\ writes = 0
    /\ execs = 0
    /\ failedAt = ""
    /\ objAtStart = s3obj
    /\ lastGood = NoResult

\* the export operator is not running
ExportParked ==
    /\ data = [headers |-> SubSeq(ColNames, 1, 1), rows |-> <<>>]
    /\ s3obj = NoObject
    /\ epc = "idle"
    /\ conn = "none"
    /\ cursor = "none"
    /\ result = NoResult
    /\ rows = NoVal
    /\ headers = NoVal
    /\ data_buffer = <<>>
    /\ writes = 0
    /\ execs = 0
    /\ failedAt = ""
    /\ objAtStart = NoObject
    /\ lastGood = NoResult

\* psycopg2's connection.__exit__: commit (or rollback on an exception); the
\* connection itself is left as it is
WithConnExit(c) == c

\* no try/except around the query: the exception leaves execute
AfterQueryError == "raised"

UploadEarly == epc \in {"serialized", "executed"}
\* load_string is called after the with block and the serialization
UploadEnabled == epc = "serialized"

\* a task instance calls execute: the hooks are built, nothing is connected
ExecuteBegin ==
    /\ epc = "idle"
    /\ epc' = "hooks"
    /\ objAtStart' = s3obj
    /\ UNCHANGED <<data, s3obj, conn, cursor, result, rows, headers,
                   data_buffer, writes, execs, failedAt, lastGood>>
    /\ UNCHANGED <<loadVars, dagVars>>

\* postgres_hook.get_conn() and conn.__enter__
GetConn ==
    /\ epc = "hooks"
    /\ \/ /\ conn' = "open"
          /\ epc' = "in_conn"
          /\ UNCHANGED failedAt
       \/ /\ conn' = "none"
          /\ epc' = "raised"
          /\ failedAt' = "get_conn"
    /\ UNCHANGED <<data, s3obj, cursor, result, rows, headers, data_buffer,
                   writes, execs, objAtStart, lastGood>>
    /\ UNCHANGED <<loadVars, dagVars>>

\* conn.cursor() and cursor.__enter__
OpenCursor ==
    /\ epc = "in_conn"
    /\ cursor' = "open"
    /\ epc' = "in_cursor"
    /\ UNCHANGED <<data, s3obj, conn, result, rows, headers, data_buffer,
                   writes, execs, failedAt, objAtStart, lastGood>>
    /\ UNCHANGED <<loadVars, dagVars>>

\* an exception inside the two with blocks: cursor.__exit__ closes the cursor,
\* conn.__exit__ rolls back, the exception goes on
QueryError(step) ==
    /\ cursor' = "closed"
    /\ conn' = WithConnExit(conn)
    /\ epc' = AfterQueryError
    /\ failedAt' = step

\* cursor.execute(self.query)
CursorExecute ==
    /\ epc = "in_cursor"
    /\ execs' = execs + 1
    /\ \/ /\ result' = data
          /\ epc' = "executed"
          /\ UNCHANGED <<conn, cursor, failedAt>>
       \/ /\ QueryError("execute")
          /\ UNCHANGED result
    /\ UNCHANGED <<data, s3obj, rows, headers, data_buffer, writes,
                   objAtStart, lastGood>>
    /\ UNCHANGED <<loadVars, dagVars>>

\* rows = cursor.fetchall()
FetchAll ==
    /\ epc = "executed"
    /\ \/ /\ rows' = result.rows
          /\ epc' = "fetched"
          /\ UNCHANGED <<conn, cursor, failedAt>>
       \/ /\ QueryError("fetchall")
          /\ UNCHANGED rows
    /\ UNCHANGED <<data, s3obj, result, headers, data_buffer, writes, execs,
                   objAtStart, lastGood>>
    /\ UNCHANGED <<loadVars, dagVars>>

\* headers = [col[0] for col in cursor.description], then both with blocks
\* are left normally
Describe ==
    /\ epc = "fetched"
    /\ headers' = result.headers
    /\ cursor' = "closed"
    /\ conn' = WithConnExit(conn)
    /\ epc' = "exited"
    /\ UNCHANGED <<data, s3obj, result, rows, data_buffer, writes, execs,
                   failedAt, objAtStart, lastGood>>
    /\ UNCHANGED <<loadVars, dagVars>>

\* csv_writer.writerow(headers); csv_writer.writerows(rows)
Serialize ==
    /\ epc = "exited"
    /\ data_buffer' = CsvText(headers, rows)
    /\ epc' = "serialized"
    /\ UNCHANGED <<data, s3obj, conn, cursor, result, rows, headers, writes,
                   execs, failedAt, objAtStart, lastGood>>
    /\ UNCHANGED <<loadVars, dagVars>>

\* s3_hook.load_string(..., replace=True): one call, which writes the whole
\* object or raises and writes nothing
Upload ==
    /\ UploadEnabled
    /\ \/ /\ s3obj' = S3Put(s3obj, data_buffer)
          /\ writes' = writes + 1
          /\ epc' = "done"
          /\ UNCHANGED failedAt
       \/ /\ epc' = "raised"
          /\ failedAt' = "upload"
          /\ UNCHANGED <<s3obj, writes>>
    /\ UNCHANGED <<data, conn, cursor, result, rows, headers, data_buffer,
                   execs, objAtStart, lastGood>>
    /\ UNCHANGED <<loadVars, dagVars>>

\* execute has returned or raised; the task instance is over and its locals
\* are gone
Return ==
    /\ epc \in {"done", "raised"}
    /\ epc' = "idle"
    /\ lastGood' = IF epc = "done" THEN [headers |-> headers, rows |-> rows]
                   ELSE lastGood
    /\ conn' = "none"
    /\ cursor' = "none"
    /\ result' = NoResult
    /\ rows' = NoVal
    /\ headers' = NoVal
    /\ data_buffer' = <<>>
    /\ writes' = 0
    /\ execs' = 0
    /\ failedAt' = ""
    /\ objAtStart' = s3obj
    /\ UNCHANGED <<data, s3obj>>
    /\ UNCHANGED <<loadVars, dagVars>>

\* the table changes between two invocations, so the query returns another
\* result set
ChangeData(V) ==
    /\ epc = "idle"
    /\ data' \in ResultSets(V) \ {data}
    /\ UNCHANGED <<s3obj, epc, conn, cursor, result, rows, headers,
                   data_buffer, writes, execs, failedAt, objAtStart, lastGood>>
    /\ UNCHANGED <<loadVars, dagVars>>

ExecuteStep ==
    \/ ExecuteBegin
    \/ GetConn
    \/ OpenCursor
    \/ CursorExecute
    \/ FetchAll
    \/ Describe
    \/ Serialize
    \/ Upload
    \/ Return

(***************************************************************************)
(* load_csv_to_postgres                                                    *)
(***************************************************************************)
Loaders == {1, 2}        \* task instances of load_csv_to_postgres
Files   == 1..NumFiles   \* listing_dates, by position
Days    == 0..MaxDay

\* rows of /tmp/airbnbdata/listing-{date}-processed.csv, by position of date
RowsIn(f) == f

RECURSIVE SumRows(_)
SumRows(B) ==
    IF B = {} THEN 0
    ELSE LET b == CHOOSE x \in B : TRUE IN RowsIn(b.file) + SumRows(B \ {b})

BatchesOf(d) == {b \in listings : b.date = d}
\* SELECT count(*) FROM listings WHERE load_date = d
RowCount(d)  == SumRows(BatchesOf(d))
TotalRows    == SumRows({[file |-> f, date |-> 0, run |-> 0] : f \in Files})

Active(p) == lpc[p] \in {"connected", "purged", "copying"}

LoadInit ==
    /\ today = 0
    /\ listings = {}
    /\ lpc = [p \in Loaders |-> "idle"]
    /\ lrun = [p \in Loaders |-> 0]
    /\ purgeDate = [p \in Loaders |-> NoDate]
    /\ copyDate = [p \in Loaders |-> NoDate]
    /\ pendDel = [p \in Loaders |-> {}]
    /\ pendIns = [p \in Loaders |-> {}]
    /\ nextFile = [p \in Loaders |-> 1]
    /\ runs = 0
    /\ overlapped = [p \in Loaders |-> FALSE]
    /\ everOverlap = FALSE
    /\ lastRun = NoRun
    /\ prevRun = NoRun

\* the loader is not running
LoadParked == LoadInit

\* what is recorded of a run when it ends
RunRecord(p, ok, step, table) ==
    [run |-> lrun[p], ok |-> ok, failedAt |-> step,
     purgeDate |-> purgeDate[p],
     copyDate |-> IF ok THEN copyDate[p] ELSE NoDate,
     copied |-> nextFile[p] - 1,
     overlapped |-> overlapped[p],
     count |-> IF ok THEN SumRows({b \in table : b.date = copyDate[p]}) ELSE 0]

\* an exception leaves load_csv_to_postgres: nothing is committed or closed,
\* and the server rolls the open transaction back when the connection goes
LoadRaise(p, step) ==
    /\ lpc' = [lpc EXCEPT ![p] = "failed"]
    /\ pendDel' = [pendDel EXCEPT ![p] = {}]
    /\ pendIns' = [pendIns EXCEPT ![p] = {}]
    /\ prevRun' = lastRun
    /\ lastRun' = RunRecord(p, FALSE, step, listings)

\* hook.get_conn(); conn.cursor()
LoadBegin(p) ==
    /\ lpc[p] \in {"idle", "done", "failed"}
    /\ runs < MaxRuns
    /\ runs' = runs + 1
    /\ lrun' = [lrun EXCEPT ![p] = runs + 1]
    /\ lpc' = [lpc EXCEPT ![p] = "connected"]
    /\ purgeDate' = [purgeDate EXCEPT ![p] = NoDate]
    /\ copyDate' = [copyDate EXCEPT ![p] = NoDate]
    /\ pendDel' = [pendDel EXCEPT ![p] = {}]
    /\ pendIns' = [pendIns EXCEPT ![p] = {}]
    /\ nextFile' = [nextFile EXCEPT ![p] = 1]
    /\ overlapped' = [q \in Loaders |->
                        IF q = p THEN \E r \in Loaders \ {p} : Active(r)
                        ELSE overlapped[q] \/ Active(q)]
    /\ everOverlap' = (everOverlap \/ \E r \in Loaders \ {p} : Active(r))
    /\ UNCHANGED <<today, listings, lastRun, prevRun>>
    /\ UNCHANGED <<exportVars, dagVars>>

PurgeNothing(d) == {}
PurgeOtherDates(d) == {b \in listings : b.date # d}
\* DELETE FROM listings WHERE load_date = CURRENT_DATE: the committed rows
\* the statement sees
PurgeSet(d) == {b \in listings : b.date = d}

\* cur.execute("DELETE ..."): the first statement opens a transaction, whose
\* CURRENT_DATE is the date at its start; rows another transaction has
\* deleted and not committed are locked, and the statement waits for them
Purge(p) ==
    /\ lpc[p] = "connected"
    /\ \A q \in Loaders \ {p} : pendDel[q] \cap PurgeSet(today) = {}
    /\ \/ /\ lpc' = [lpc EXCEPT ![p] = "purged"]
          /\ purgeDate' = [purgeDate EXCEPT ![p] = today]
          /\ pendDel' = [pendDel EXCEPT ![p] = PurgeSet(today)]
          /\ UNCHANGED <<pendIns, lastRun, prevRun>>
       \/ /\ LoadRaise(p, "delete")
          /\ UNCHANGED purgeDate
    /\ UNCHANGED <<today, listings, lrun, copyDate, nextFile, runs,
                   overlapped, everOverlap>>
    /\ UNCHANGED <<exportVars, dagVars>>

\* conn.commit() after the DELETE
CommitPurge(p) ==
    /\ lpc[p] = "purged"
    /\ listings' = listings \ pendDel[p]
    /\ pendDel' = [pendDel EXCEPT ![p] = {}]
    /\ lpc' = [lpc EXCEPT ![p] = "copying"]
    /\ UNCHANGED <<today, lrun, purgeDate, copyDate, pendIns, nextFile, runs,
                   overlapped, everOverlap, lastRun, prevRun>>
    /\ UNCHANGED <<exportVars, dagVars>>

AutoCommitCopy(b) == {b}
\* rows a COPY makes visible to other sessions when it returns: none, the
\* transaction stays open until the commit after the loop
VisibleAfterCopy(b) == {}

\* load_date DEFAULT CURRENT_DATE: the date at the start of the transaction,
\* which the first COPY after the commit opens
CopyDateOfTx(p) == IF nextFile[p] = 1 THEN today ELSE copyDate[p]

\* one pass of the for loop: open(processed_file) and cur.copy_expert
CopyFile(p) ==
    /\ lpc[p] = "copying"
    /\ nextFile[p] <= NumFiles
    /\ \/ LET d == CopyDateOfTx(p)
              b == [file |-> nextFile[p], date |-> d, run |-> lrun[p]]
          IN  /\ copyDate' = [copyDate EXCEPT ![p] = d]
              /\ pendIns' = [pendIns EXCEPT ![p] = @ \cup ({b} \ VisibleAfterCopy(b))]
              /\ listings' = listings \cup VisibleAfterCopy(b)
              /\ nextFile' = [nextFile EXCEPT ![p] = @ + 1]
              /\ UNCHANGED <<lpc, pendDel, lastRun, prevRun>>
       \/ /\ LoadRaise(p, "copy")
          /\ UNCHANGED <<copyDate, listings, nextFile>>
    /\ UNCHANGED <<today, lrun, purgeDate, runs, overlapped, everOverlap>>
    /\ UNCHANGED <<exportVars, dagVars>>

\* conn.commit() after the loop; cur.close(); conn.close()
CommitCopies(p) ==
    /\ lpc[p] = "copying"
    /\ nextFile[p] > NumFiles
    /\ listings' = listings \cup pendIns[p]
    /\ pendIns' = [pendIns EXCEPT ![p] = {}]
    /\ lpc' = [lpc EXCEPT ![p] = "done"]
    /\ prevRun' = lastRun
    /\ lastRun' = RunRecord(p, TRUE, "", listings \cup pendIns[p])
    /\ UNCHANGED <<today, lrun, purgeDate, copyDate, pendDel, nextFile, runs,
                   overlapped, everOverlap>>
    /\ UNCHANGED <<exportVars, dagVars>>

\* midnight on the database server
Tick ==
    /\ today < MaxDay
    /\ today' = today + 1
    /\ UNCHANGED <<listings, lpc, lrun, purgeDate, copyDate, pendDel, pendIns,
                   nextFile, runs, overlapped, everOverlap, lastRun, prevRun>>
    /\ UNCHANGED <<exportVars, dagVars>>

LoadStep ==
    \/ \E p \in Loaders : LoadBegin(p)
    \/ \E p \in Loaders : Purge(p)
    \/ \E p \in Loaders : CommitPurge(p)
    \/ \E p \in Loaders : CopyFile(p)
    \/ \E p \in Loaders : CommitCopies(p)
    \/ Tick

(***************************************************************************)
(* The DAG: download_csv_task >> preprocess_csv_task >> create_table >>    *)
(* load_csv_task >> transfer_postgres_to_s3, every task with the default   *)
(* trigger rule (all upstream tasks succeeded)                             *)
(***************************************************************************)
Chain == <<"download_csv", "preprocess_csv", "create_table",
           "load_csv_to_postgres", "transfer_postgres_to_s3">>
Tasks == 1..Len(Chain)

DagInit ==
    /\ ts = [t \in Tasks |-> "none"]
    /\ started = <<>>
    /\ rawFile \in [Files -> BOOLEAN]     \* scratch files of earlier runs stay
    /\ procFile \in [Files -> BOOLEAN]
    /\ loopIdx = 1
    /\ skipped = {}
    /\ attempted = {}
    /\ failCause = ""

\* no pipeline run is going on
DagParked ==
    /\ ts = [t \in Tasks |-> "none"]
    /\ started = <<>>
    /\ rawFile = [f \in Files |-> FALSE]
    /\ procFile = [f \in Files |-> FALSE]
    /\ loopIdx = 1
    /\ skipped = {}
    /\ attempted = {}
    /\ failCause = ""

UpstreamDone(t) == IF t = 1 THEN TRUE ELSE ts[t - 1] \in {"success", "failed"}
\* a >> b: b is scheduled once a has succeeded
UpstreamSucceeded(t) == IF t = 1 THEN TRUE ELSE ts[t - 1] = "success"

\* the scheduler queues and starts a task instance
TaskStart(t) ==
    /\ ts[t] = "none"
    /\ UpstreamSucceeded(t)
    /\ ts' = [ts EXCEPT ![t] = "running"]
    /\ started' = Append(started, t)
    /\ loopIdx' = 1
    /\ UNCHANGED <<rawFile, procFile, skipped, attempted, failCause>>
    /\ UNCHANGED <<exportVars, loadVars>>

\* the scheduler marks a task whose upstream task did not succeed
UpstreamFailed(t) ==
    /\ ts[t] = "none"
    /\ t > 1
    /\ ts[t - 1] \in {"failed", "upstream_failed"}
    /\ ts' = [ts EXCEPT ![t] = "upstream_failed"]
    /\ UNCHANGED <<started, rawFile, procFile, loopIdx, skipped, attempted,
                   failCause>>
    /\ UNCHANGED <<exportVars, loadVars>>

\* one pass of the loop of download_csv: requests.get, then the file is
\* written (status 200), or the failure is printed, or requests.get raises
DownloadOne ==
    /\ ts[1] = "running"
    /\ loopIdx <= NumFiles
    /\ attempted' = attempted \cup {loopIdx}
    /\ \/ /\ rawFile' = [rawFile EXCEPT ![loopIdx] = TRUE]
          /\ loopIdx' = loopIdx + 1
          /\ UNCHANGED <<ts, skipped, failCause>>
       \/ /\ skipped' = skipped \cup {loopIdx}
          /\ loopIdx' = loopIdx + 1
          /\ UNCHANGED <<ts, rawFile, failCause>>
       \/ /\ ts' = [ts EXCEPT ![1] = "failed"]
          /\ failCause' = "request_exception"
          /\ UNCHANGED <<rawFile, loopIdx, skipped>>
    /\ UNCHANGED <<started, procFile>>
    /\ UNCHANGED <<exportVars, loadVars>>

\* download_csv returns
DownloadDone ==
    /\ ts[1] = "running"
    /\ loopIdx > NumFiles
    /\ ts' = [ts EXCEPT ![1] = "success"]
    /\ UNCHANGED <<started, rawFile, procFile, loopIdx, skipped, attempted,
                   failCause>>
    /\ UNCHANGED <<exportVars, loadVars>>

\* pd.read_csv(input_file) needs the file: FileNotFoundError otherwise
ReadCsvFinds(f) == rawFile[f]

\* one pass of the loop of preprocess_csv: pd.read_csv, df.to_csv
PreprocessOne ==
    /\ ts[2] = "running"
    /\ loopIdx <= NumFiles
    /\ IF ReadCsvFinds(loopIdx)
       THEN \/ /\ procFile' = [procFile EXCEPT ![loopIdx] = rawFile[loopIdx]]
               /\ loopIdx' = loopIdx + 1
               /\ UNCHANGED <<ts, failCause>>
            \/ /\ rawFile[loopIdx]
               /\ ts' = [ts EXCEPT ![2] = "failed"]
               /\ failCause' = "parse_error"
               /\ UNCHANGED <<procFile, loopIdx>>
       ELSE /\ ts' = [ts EXCEPT ![2] = "failed"]
            /\ failCause' = "file_not_found"
            /\ UNCHANGED <<procFile, loopIdx>>
    /\ UNCHANGED <<started, rawFile, skipped, attempted>>
    /\ UNCHANGED <<exportVars, loadVars>>

\* preprocess_csv returns
PreprocessDone ==
    /\ ts[2] = "running"
    /\ loopIdx > NumFiles
    /\ ts' = [ts EXCEPT ![2] = "success"]
    /\ UNCHANGED <<started, rawFile, procFile, loopIdx, skipped, attempted,
                   failCause>>
    /\ UNCHANGED <<exportVars, loadVars>>

\* create_table, load_csv_to_postgres or transfer_postgres_to_s3 ends: it
\* returned, or an exception left it (their steps are SpecLoad and SpecExport)
TaskEnd(t) ==
    /\ t >= 3
    /\ ts[t] = "running"
    /\ \/ /\ ts' = [ts EXCEPT ![t] = "success"]
          /\ UNCHANGED failCause
       \/ /\ ts' = [ts EXCEPT ![t] = "failed"]
          /\ failCause' = "exception"
    /\ UNCHANGED <<started, rawFile, procFile, loopIdx, skipped, attempted>>
    /\ UNCHANGED <<exportVars, loadVars>>

DagStep ==
    \/ \E t \in Tasks : TaskStart(t)
    \/ \E t \in Tasks : UpstreamFailed(t)
    \/ DownloadOne
    \/ DownloadDone
    \/ PreprocessOne
    \/ PreprocessDone
    \/ \E t \in Tasks : TaskEnd(t)

(***************************************************************************)
(* Specifications                                                          *)
(***************************************************************************)
\* the export operator, invoked again and again while the table changes
InitExport == ExportInit(SmallVals) /\ LoadParked /\ DagParked
NextExport == ExecuteStep \/ ChangeData(SmallVals)
SpecExport == InitExport /\ [][NextExport]_vars

\* the export operator on every result set of FieldVals
InitCsv == ExportInit(FieldVals) /\ LoadParked /\ DagParked
NextCsv == ExecuteStep
SpecCsv == InitCsv /\ [][NextCsv]_vars

\* load runs of two task instances, which may overlap, and the clock
InitLoad == ExportParked /\ LoadInit /\ DagParked
NextLoad == LoadStep
SpecLoad == InitLoad /\ [][NextLoad]_vars

\* one run of the DAG
InitDag == ExportParked /\ LoadParked /\ DagInit
NextDag == DagStep
SpecDag == InitDag /\ [][NextDag]_vars

(***************************************************************************)
(* Reading an object back: a CSV reader of the writer's dialect (comma,    *)
(* double quote, doubled quotes inside quoted fields, line feed ends a     *)
(* record). A record is a sequence of fields; an empty line is a record of *)
(* no field.                                                               *)
(***************************************************************************)
RECURSIVE ReadFrom(_, _, _, _, _, _)
ReadFrom(t, i, inq, fld, rec, any) ==
    IF i > Len(t)
    THEN IF any THEN <<Append(rec, fld)>> ELSE <<>>
    ELSE IF inq
    THEN IF t[i] = QUOTECHAR
         THEN IF i < Len(t) /\ t[i + 1] = QUOTECHAR
              THEN ReadFrom(t, i + 2, TRUE, Append(fld, QUOTECHAR), rec, TRUE)
              ELSE ReadFrom(t, i + 1, FALSE, fld, rec, TRUE)
         ELSE ReadFrom(t, i + 1, TRUE, Append(fld, t[i]), rec, TRUE)
    ELSE IF t[i] = QUOTECHAR
         THEN ReadFrom(t, i + 1, TRUE, fld, rec, TRUE)
    ELSE IF t[i] = DELIMITER
         THEN ReadFrom(t, i + 1, FALSE, <<>>, Append(rec, fld), TRUE)
    ELSE IF t[i] = LINETERMINATOR
         THEN <<IF any THEN Append(rec, fld) ELSE <<>>>>
              \o ReadFrom(t, i + 1, FALSE, <<>>, <<>>, FALSE)
    ELSE ReadFrom(t, i + 1, FALSE, Append(fld, t[i]), rec, TRUE)

ReadCsv(t) == ReadFrom(t, 1, FALSE, <<>>, <<>>, FALSE)

\* the header line as plain text: the column names between commas
RECURSIVE PlainLine(_)
PlainLine(hs) ==
    IF hs = <<>> THEN <<LINETERMINATOR>>
    ELSE hs[1] \o (IF Len(hs) > 1 THEN <<DELIMITER>> ELSE <<>>) \o PlainLine(Tail(hs))

(***************************************************************************)
(* Claims about PostgresToS3Operator.execute                               *)
(***************************************************************************)
\* C1: when execute has returned or raised, the connection it obtained has
\* been closed. (psycopg2's with block ends the transaction and leaves the
\* connection open: the statement is violated.)
C1_ConnectionReleased ==
    (epc \in {"done", "raised"} /\ conn # "none") => conn = "closed"

\* C2: one invocation writes the object store at most once and executes the
\* query at most once; a write happens only after the query was executed and
\* its result fetched; when get_conn, cursor.execute or fetchall fails, the
\* invocation goes no further, writes nothing and leaves the object as it was.
C2_WriteOnceAfterFetch ==
    /\ writes <= 1
    /\ execs <= 1
    /\ writes = 1 => (execs = 1 /\ result # NoResult /\ rows = result.rows)
    /\ failedAt # "" => epc = "raised"
    /\ failedAt \in {"get_conn", "execute", "fetchall"} =>
          (writes = 0 /\ s3obj = objAtStart /\ data_buffer = <<>>)

\* a fetch fails in an invocation that follows a successful export
C2_Witness ==
    /\ epc = "raised"
    /\ failedAt = "fetchall"
    /\ lastGood # NoResult
    /\ s3obj = objAtStart

\* C3: the uploaded object reads back as N+1 records: the C column names,
\* then the N fetched rows in fetch order, C fields each; with N = 0 the
\* object is the header line alone.
C3_HeaderThenRows ==
    epc = "done" =>
        LET recs == ReadCsv(s3obj)
            N    == Len(rows)
            C    == Len(headers)
        IN  /\ Len(recs) = N + 1
            /\ recs[1] = headers
            /\ \A i \in 1..N :
                  /\ Len(recs[i + 1]) = C
                  /\ \A j \in 1..C : recs[i + 1][j] = FieldText(rows[i][j])
            /\ N = 0 => s3obj = PlainLine(headers)

\* an export of two rows of two columns, with a line feed inside a field, a
\* NULL and a quote character
C3_Witness ==
    /\ epc = "done"
    /\ Len(headers) = 2
    /\ Len(rows) = 2
    /\ rows[1][1] = <<LINETERMINATOR>>
    /\ rows[1][2] = NULL
    /\ rows[2][1] = <<QUOTECHAR>>

\* C4: the object is the serialization of the result set of the most recent
\* invocation that succeeded, whatever was at the key before; an export of
\* the result set that was exported last leaves the object as it was.
C4_ObjectIsLastExport ==
    /\ (epc # "done" /\ lastGood # NoResult) =>
          s3obj = CsvText(lastGood.headers, lastGood.rows)
    /\ epc = "done" => s3obj = CsvText(headers, rows)
    /\ (epc = "done" /\ lastGood = [headers |-> headers, rows |-> rows]) =>
          s3obj = objAtStart

\* an export has replaced the longer object of an earlier, different export
C4_Witness ==
    /\ epc = "done"
    /\ lastGood # NoResult
    /\ lastGood # [headers |-> headers, rows |-> rows]
    /\ objAtStart = CsvText(lastGood.headers, lastGood.rows)
    /\ Len(objAtStart) > Len(s3obj)

(***************************************************************************)
(* Claims about load_csv_to_postgres                                       *)
(***************************************************************************)
NoneActive == \A p \in Loaders : ~Active(p)

CopiesOf(f, d) == Cardinality({b \in BatchesOf(d) : b.file = f})

\* the last two runs succeeded one after the other within calendar day d
TwoRunsOnDay(d) ==
    /\ NoneActive
    /\ lastRun.ok /\ prevRun.ok
    /\ ~lastRun.overlapped /\ ~prevRun.overlapped
    /\ prevRun.purgeDate = d /\ prevRun.copyDate = d
    /\ lastRun.purgeDate = d /\ lastRun.copyDate = d

\* C5: after two successive load runs within one calendar day the table holds
\* as many rows of that load date as after the first of them: the rows of
\* every file once.
C5_SameDayRerunSameCount ==
    \A d \in Days :
        TwoRunsOnDay(d) =>
            /\ RowCount(d) = prevRun.count
            /\ RowCount(d) = TotalRows

C5_Witness == \E d \in Days : TwoRunsOnDay(d) /\ RowCount(d) = TotalRows

\* C8: the rows a finished run inserted all carry one load date, and it is
\* the date whose rows the run purged. (The DELETE and the COPYs run in two
\* transactions; midnight between them violates the statement.)
C8_LoadDateIsPurgedDate ==
    \A p \in Loaders :
        lpc[p] = "done" =>
            \A b \in listings :
                b.run = lrun[p] => (b.date = copyDate[p] /\ b.date = purgeDate[p])

\* C9: as long as no two load runs have overlapped, after each load that
\* completed the table holds the rows of every file exactly once for the
\* load date of that run. (That overlapping runs can leave the rows twice is
\* the state C9_OverlapDuplicates.)
C9_NonOverlapExactlyOnce ==
    (~everOverlap /\ NoneActive /\ lastRun.ok) =>
        \A f \in Files : CopiesOf(f, lastRun.copyDate) = 1

\* two overlapping runs have both completed and the table holds the rows of a
\* file twice for one load date
C9_OverlapDuplicates ==
    /\ everOverlap
    /\ \A p \in Loaders : lpc[p] = "done"
    /\ \E d \in Days : \E f \in Files : CopiesOf(f, d) > 1

\* C10: the committed table never holds the rows of only some files of a
\* run; a run whose COPY failed has no row in it; and after such a run, not
\* overlapped by another, its purge stands: the table has no row for the
\* purged date nor for today.
C10_FailedCopyLeavesNoRows ==
    /\ \A r \in 1..runs :
          {b.file : b \in {x \in listings : x.run = r}} \in {{}, Files}
    /\ \A p \in Loaders :
          lpc[p] = "failed" => {b \in listings : b.run = lrun[p]} = {}
    /\ (lastRun.failedAt = "copy" /\ ~lastRun.overlapped /\ NoneActive) =>
          (RowCount(lastRun.purgeDate) = 0 /\ RowCount(today) = 0)

\* a COPY fails after an earlier file was copied, in a run that had purged
\* the rows of the run before it
C10_Witness ==
    /\ NoneActive
    /\ lastRun.failedAt = "copy"
    /\ lastRun.copied >= 1
    /\ ~lastRun.overlapped
    /\ prevRun.ok
    /\ prevRun.copyDate = lastRun.purgeDate

(***************************************************************************)
(* Claims about the DAG run                                                *)
(***************************************************************************)
\* C6: when a download was logged as failed and skipped, download_csv does
\* not fail for it, requests every snapshot, and preprocess_csv does not fail
\* for the file that is missing. (pd.read_csv raises FileNotFoundError for a
\* skipped snapshot with no file of an earlier run: the statement is violated.)
C6_SkipThenContinue ==
    (skipped # {} /\ failCause # "request_exception") =>
        /\ ts[1] # "failed"
        /\ ts[1] = "success" => attempted = Files
        /\ ~(ts[2] = "failed" /\ failCause = "file_not_found")

\* C7: the tasks start in the order of the chain, each only after the task
\* before it succeeded; at most one task is running; a task after a failed
\* task never starts.
C7_StrictChain ==
    /\ Cardinality({t \in Tasks : ts[t] = "running"}) <= 1
    /\ \A i \in 1..Len(started) : started[i] = i
    /\ \A t \in Tasks \ {1} :
          /\ ts[t] \in {"running", "success", "failed"} => ts[t - 1] = "success"
          /\ ts[t - 1] \in {"failed", "upstream_failed"} =>
                ts[t] \in {"none", "upstream_failed"}

\* the five tasks have run, one after the other, and the last has succeeded
C7_Witness ==
    /\ started = <<1, 2, 3, 4, 5>>
    /\ ts[5] = "success"

====
